---- MODULE Spec2Model ----
(***************************************************************************)
(* Client-side state synchronizer of the agent dashboard: the App          *)
(* component's state, its operator actions, the useAgentPolling hook       *)
(* (poll interval, stall timer, poll cycles in flight) and the             *)
(* pending_question poll.                                                  *)
(*                                                                         *)
(* Time is discrete; one tick is one main poll interval (3000 ms).  A      *)
(* timer whose remaining time is 0 is due and fires before time advances.  *)
(* Network requests take an arbitrary time.  The pending_question poll has *)
(* a period (2000 ms) that is no multiple of the tick and is modelled as   *)
(* firing at arbitrary instants.                                           *)
(***************************************************************************)
EXTENDS Integers, FiniteSets, Sequences, TLC

\* ------------------------------------------------------------------ bounds
MaxSessions == 2
MaxInFlight == 1
MaxOps == 2
MaxQPolls == 1

\* ------------------------------------------------------- program constants
PollIntervalMs == 3000
StallTimeoutMs == 30000
TickMs == PollIntervalMs
\* the poll interval set to twice the period
PollTicks_Slow == 2 * (PollIntervalMs \div TickMs)

PollTicks == PollIntervalMs \div TickMs
StallTicks == StallTimeoutMs \div TickMs

Sessions == 1..MaxSessions
Stages == {"status", "logs", "input"}
\* values of status.status the remote reports; "executing" stands for any
\* value the client does not interpret
RemoteStatuses == {"idle", "planning", "completed", "aborted", "quota_exceeded", "executing"}
\* "" is status.status of the empty snapshot {}
NoStatus == ""
RemoteLogs == {<<>>, <<"line">>}
RemoteInputs == {"", "remote"}
RemoteQuestions == {"null", "Which file?"}
Typed == "typed"
TaskText == "Open the calculator app"
AnswerText == "answer"
ScreenshotRef == "screenshot?now"
OpKinds == {"task", "directive", "reset", "kill", "clear", "answer"}
ServerError == "server error"
NoAlert == ""

VARIABLES
  task, userInput, status, logs, screenshotUrl, loading, logsOpen, fresh,
  planningStuck, editingUserInput, killing, quotaError, pendingQuestion,
  pendingAnswer,
  alertMsg,        \* the alert() the last step surfaced, NoAlert if none
  nsess,           \* polling loops started since the page was loaded
  captured,        \* per loop: editingUserInput as captured by the effect closure
  planningTimer,   \* per loop: the closure variable holds a timer id
  timer,           \* per loop: remaining ticks of the pending stall timeout, -1 if none
  interval,        \* remaining ticks of the live loop's setInterval, -1 if none
  polls,           \* per loop and stage: poll cycles awaiting that fetch
  ops,             \* operator requests in flight, per kind
  qpolls,          \* pending_question polls in flight
  lastSeen,        \* history: status the most recent main poll observed
  dwell,           \* history: ticks since lastSeen became "planning", -1 if it is not
  episodes,        \* history: planning episodes observed since page load (capped at 2)
  qstale           \* history: pending_question polls in flight that were requested
                   \* before the last accepted answer

uiVars == <<task, userInput, status, logs, screenshotUrl, loading, logsOpen, fresh,
            planningStuck, editingUserInput, killing, quotaError, pendingQuestion,
            pendingAnswer>>
hookVars == <<nsess, captured, planningTimer, timer, interval, polls>>
statusHist == <<lastSeen, dwell, episodes>>
histVars == <<lastSeen, dwell, episodes, qstale>>
vars == <<uiVars, alertMsg, hookVars, ops, qpolls, histVars>>

\* ------------------------------------------------------------ render logic
Terminal == {"completed", "idle", "aborted"}

\* TaskInputLoading without the status gate
TaskInputLoading_NoStatusGate == loading \/ killing \/ quotaError

\* TaskInput's loading prop
TaskInputLoading ==
  loading \/ killing \/ quotaError \/ (~fresh /\ ~(status \in Terminal))

\* TaskInput: the Send button is enabled
TaskSubmitEnabled == ~(TaskInputLoading \/ task = "")

\* a directive field that is also disabled while the status is quota_exceeded
UserInputLoading_WhileQuotaStatus ==
  loading \/ killing \/ quotaError \/ status = "quota_exceeded"

\* a directive field that is also disabled while a question is pending
UserInputLoading_WhileQuestion == loading \/ killing \/ quotaError \/ pendingQuestion # "null"

\* UserInput's loading prop: the directive field and its Send button are disabled
UserInputLoading == loading \/ killing \/ quotaError

\* a Reset button rendered unconditionally
ResetShown_Always == TRUE

\* the Reset Agent button is rendered
ResetShown ==
  IF quotaError THEN TRUE
  ELSE IF planningStuck THEN TRUE
  ELSE ~fresh /\ status \in Terminal

\* the Kill Switch button is rendered
KillShown ==
  IF quotaError THEN TRUE
  ELSE IF planningStuck THEN TRUE
  ELSE ~planningStuck

\* disabled prop of the Reset and Kill buttons
ControlDisabled == loading \/ killing

ResetAvailable == ResetShown /\ ~ControlDisabled
KillAvailable == KillShown /\ ~ControlDisabled

\* LogsPanel: the Clear Logs button sits inside the Collapse
ClearLogsShown == logsOpen

\* AskUserModal: open prop and Submit button
ModalOpen == pendingQuestion # "null"
AnswerSubmitEnabled == ModalOpen /\ pendingAnswer # ""

\* ------------------------------------------------------------------ helpers
TotalPolls ==
  LET RECURSIVE Sum(_)
      Sum(S) == IF S = {} THEN 0
                ELSE LET x == CHOOSE y \in S : TRUE
                     IN polls[x[1]][x[2]] + Sum(S \ {x})
  IN Sum(Sessions \X Stages)

TotalOps ==
  LET RECURSIVE Sum(_)
      Sum(S) == IF S = {} THEN 0
                ELSE LET k == CHOOSE y \in S : TRUE
                     IN ops[k] + Sum(S \ {k})
  IN Sum(OpKinds)

Min(a, b) == IF a < b THEN a ELSE b

\* the polling loop runs: the condition of the hook's effect
LoopRuns(f, q) == ~f /\ ~q

Live == LoopRuns(fresh, quotaError)

\* ------------------------------------------------------------------- Init
InitUI ==
  /\ task = "" /\ userInput = "" /\ status = NoStatus /\ logs = <<>>
  /\ screenshotUrl = "" /\ loading = FALSE /\ logsOpen = FALSE /\ fresh = TRUE
  /\ planningStuck = FALSE /\ editingUserInput = FALSE /\ killing = FALSE
  /\ quotaError = FALSE /\ pendingQuestion = "null" /\ pendingAnswer = ""

Init ==
  /\ InitUI
  /\ alertMsg = NoAlert
  /\ nsess = 0
  /\ captured = [s \in Sessions |-> FALSE]
  /\ planningTimer = [s \in Sessions |-> FALSE]
  /\ timer = [s \in Sessions |-> -1]
  /\ interval = -1
  /\ polls = [s \in Sessions |-> [g \in Stages |-> 0]]
  /\ ops = [k \in OpKinds |-> 0]
  /\ qpolls = 1
  /\ lastSeen = NoStatus /\ dwell = -1 /\ episodes = 0 /\ qstale = 0

\* --------------------------------------------------- useAgentPolling hook
\* poll(): runs up to its first await, the status fetch of loop s
StartPoll(P, s) == [P EXCEPT ![s]["status"] = @ + 1]

MovePoll(P, s, from, to) ==
  IF to = "done" THEN [P EXCEPT ![s][from] = @ - 1]
  ELSE [P EXCEPT ![s][from] = @ - 1, ![s][to] = @ + 1]

\* The effect of useAgentPolling with deps [fresh, quotaError], run by the render
\* that commits fresh = f, quotaError = q while editingUserInput = e: the cleanup
\* of the previous effect, then the effect body.
HookEffect(f, q, e) ==
  IF f = fresh /\ q = quotaError THEN UNCHANGED hookVars
  ELSE
    LET cleared == IF Live /\ planningTimer[nsess]
                   THEN [timer EXCEPT ![nsess] = -1] ELSE timer
    IN IF LoopRuns(f, q)
       THEN /\ nsess < MaxSessions
            /\ TotalPolls < MaxInFlight
            /\ nsess' = nsess + 1
            /\ captured' = [captured EXCEPT ![nsess + 1] = e]
            /\ planningTimer' = [planningTimer EXCEPT ![nsess + 1] = FALSE]
            /\ timer' = [cleared EXCEPT ![nsess + 1] = -1]
            /\ polls' = StartPoll(polls, nsess + 1)
            /\ interval' = PollTicks
       ELSE /\ timer' = cleared
            /\ interval' = -1
            /\ UNCHANGED <<nsess, captured, planningTimer, polls>>

\* TimerAfterStatus with the timeout of one poll interval
TimerAfterStatus_ShortTimeout(st, pt, tm) ==
  IF st = "quota_exceeded" THEN tm
  ELSE IF st = "planning" THEN (IF ~pt THEN PollTicks ELSE tm)
  ELSE (IF pt THEN -1 ELSE tm)

\* what a poll cycle does with the stall timer after it has read status st;
\* pt: the closure's planningTimer holds an id, tm: remaining ticks of the timeout
TimerAfterStatus(st, pt, tm) ==
  IF st = "quota_exceeded" THEN tm
  ELSE IF st = "planning" THEN (IF ~pt THEN StallTicks ELSE tm)
  ELSE (IF pt THEN -1 ELSE tm)

PlanningTimerAfterStatus(st, pt) ==
  IF st = "quota_exceeded" THEN pt
  ELSE IF st = "planning" THEN TRUE
  ELSE pt

StuckAfterStatus(st, ps) ==
  IF st = "quota_exceeded" THEN FALSE
  ELSE IF st = "planning" THEN ps
  ELSE FALSE

\* the await the cycle reaches next, "done" when it returns
StageAfterStatus(st) == IF st = "quota_exceeded" THEN "done" ELSE "logs"

\* the cycle assigns the mirrored input; cap: editingUserInput as the closure sees it
WritesDirective(cap) == ~cap

\* history of the observed statuses
Observe(st) ==
  /\ lastSeen' = st
  /\ dwell' = IF st = "planning" THEN (IF lastSeen = "planning" THEN dwell ELSE 0) ELSE -1
  /\ episodes' = IF st = "planning" /\ lastSeen # "planning"
                 THEN Min(episodes + 1, 2) ELSE episodes
  /\ UNCHANGED qstale

\* a cycle of loop s resumes after fetchStatus() with status st
PollStatus(s, st) ==
  /\ polls[s]["status"] > 0
  /\ status' = st
  /\ planningStuck' = StuckAfterStatus(st, planningStuck)
  /\ planningTimer' = [planningTimer EXCEPT ![s] = PlanningTimerAfterStatus(st, @)]
  /\ timer' = [timer EXCEPT ![s] = TimerAfterStatus(st, planningTimer[s], @)]
  /\ polls' = MovePoll(polls, s, "status", StageAfterStatus(st))
  /\ Observe(st)
  /\ alertMsg' = NoAlert
  /\ UNCHANGED <<task, userInput, logs, screenshotUrl, loading, logsOpen, fresh,
                 editingUserInput, killing, quotaError, pendingQuestion, pendingAnswer,
                 nsess, captured, interval, ops, qpolls>>

\* a cycle of loop s resumes after fetchLogs() with logs lg
PollLogs(s, lg) ==
  /\ polls[s]["logs"] > 0
  /\ logs' = lg
  /\ polls' = MovePoll(polls, s, "logs", "input")
  /\ alertMsg' = NoAlert
  /\ UNCHANGED <<task, userInput, status, screenshotUrl, loading, logsOpen, fresh,
                 planningStuck, editingUserInput, killing, quotaError, pendingQuestion,
                 pendingAnswer, nsess, captured, planningTimer, timer, interval, ops,
                 qpolls, histVars>>

\* a cycle of loop s resumes after fetchUserInput() with mirrored input ui, and ends
PollInput(s, ui) ==
  /\ polls[s]["input"] > 0
  /\ userInput' = IF WritesDirective(captured[s]) THEN ui ELSE userInput
  /\ screenshotUrl' = ScreenshotRef
  /\ polls' = MovePoll(polls, s, "input", "done")
  /\ alertMsg' = NoAlert
  /\ UNCHANGED <<task, status, logs, loading, logsOpen, fresh, planningStuck,
                 editingUserInput, killing, quotaError, pendingQuestion, pendingAnswer,
                 nsess, captured, planningTimer, timer, interval, ops, qpolls, histVars>>

\* a rejected fetch that also stops the interval
PollFail_StopsLoop(s, g) ==
  /\ polls[s][g] > 0
  /\ polls' = MovePoll(polls, s, g, "done")
  /\ interval' = -1
  /\ alertMsg' = NoAlert
  /\ UNCHANGED <<uiVars, nsess, captured, planningTimer, timer, ops, qpolls,
                 histVars>>

\* a fetch of a cycle rejects: the cycle's promise rejects and nothing is written
PollFail(s, g) ==
  /\ polls[s][g] > 0
  /\ polls' = MovePoll(polls, s, g, "done")
  /\ alertMsg' = NoAlert
  /\ UNCHANGED <<uiVars, nsess, captured, planningTimer, timer, interval, ops, qpolls,
                 histVars>>

\* setInterval(poll, 3000) of the live loop fires
IntervalFire ==
  /\ interval = 0
  /\ TotalPolls < MaxInFlight
  /\ polls' = StartPoll(polls, nsess)
  /\ interval' = PollTicks
  /\ alertMsg' = NoAlert
  /\ UNCHANGED <<uiVars, nsess, captured, planningTimer, timer, ops, qpolls, histVars>>

\* the stall timeout of loop s fires
StallFire(s) ==
  /\ timer[s] = 0
  /\ planningStuck' = TRUE
  /\ timer' = [timer EXCEPT ![s] = -1]
  /\ alertMsg' = NoAlert
  /\ UNCHANGED <<task, userInput, status, logs, screenshotUrl, loading, logsOpen, fresh,
                 editingUserInput, killing, quotaError, pendingQuestion, pendingAnswer,
                 nsess, captured, planningTimer, interval, polls, ops, qpolls, histVars>>

\* one tick of time passes; no timer is due
Tick ==
  /\ interval # 0
  /\ \A s \in Sessions : timer[s] # 0
  /\ interval' = IF interval > 0 THEN interval - 1 ELSE interval
  /\ timer' = [s \in Sessions |-> IF timer[s] > 0 THEN timer[s] - 1 ELSE timer[s]]
  /\ dwell' = IF dwell >= 0 THEN Min(dwell + 1, StallTicks + 1) ELSE dwell
  /\ alertMsg' = NoAlert
  /\ UNCHANGED <<uiVars, nsess, captured, planningTimer, polls, ops, qpolls, lastSeen,
                 episodes, qstale>>

\* ------------------------------------------------------- operator actions
Send(k) == ops' = [ops EXCEPT ![k] = @ + 1]
Settle(k) == ops' = [ops EXCEPT ![k] = @ - 1]

\* what submitTask alerts when the post fails; hasError: the response carries an error
TaskAlert(hasError) == IF hasError THEN ServerError ELSE "Failed to submit task"

\* the operator edits the task field
TypeTask ==
  /\ ~TaskInputLoading
  /\ task' = IF task = "" THEN TaskText ELSE ""
  /\ alertMsg' = NoAlert
  /\ UNCHANGED <<userInput, status, logs, screenshotUrl, loading, logsOpen, fresh,
                 planningStuck, editingUserInput, killing, quotaError, pendingQuestion,
                 pendingAnswer, hookVars, ops, qpolls, histVars>>

\* submitTask up to its await
ClickSubmitTask ==
  /\ TaskSubmitEnabled
  /\ TotalOps < MaxOps
  /\ loading' = TRUE
  /\ Send("task")
  /\ alertMsg' = NoAlert
  /\ UNCHANGED <<task, userInput, status, logs, screenshotUrl, logsOpen, fresh,
                 planningStuck, editingUserInput, killing, quotaError, pendingQuestion,
                 pendingAnswer, hookVars, qpolls, histVars>>

\* submitTask after the post resolved
SubmitTaskOk ==
  /\ ops["task"] > 0
  /\ Settle("task")
  /\ task' = ""
  /\ fresh' = FALSE
  /\ loading' = FALSE
  /\ HookEffect(FALSE, quotaError, editingUserInput)
  /\ alertMsg' = NoAlert
  /\ UNCHANGED <<userInput, status, logs, screenshotUrl, logsOpen, planningStuck,
                 editingUserInput, killing, quotaError, pendingQuestion, pendingAnswer,
                 qpolls, histVars>>

\* SubmitTaskFail that also empties the task field
SubmitTaskFail_ClearsTask(hasError) ==
  /\ ops["task"] > 0
  /\ Settle("task")
  /\ alertMsg' = TaskAlert(hasError)
  /\ task' = ""
  /\ loading' = FALSE
  /\ UNCHANGED <<userInput, status, logs, screenshotUrl, logsOpen, fresh,
                 planningStuck, editingUserInput, killing, quotaError, pendingQuestion,
                 pendingAnswer, hookVars, qpolls, histVars>>

\* submitTask after the post rejected
SubmitTaskFail(hasError) ==
  /\ ops["task"] > 0
  /\ Settle("task")
  /\ alertMsg' = TaskAlert(hasError)
  /\ loading' = FALSE
  /\ UNCHANGED <<task, userInput, status, logs, screenshotUrl, logsOpen, fresh,
                 planningStuck, editingUserInput, killing, quotaError, pendingQuestion,
                 pendingAnswer, hookVars, qpolls, histVars>>

\* the directive field takes and loses the focus
Focus ==
  /\ ~UserInputLoading
  /\ ~editingUserInput
  /\ editingUserInput' = TRUE
  /\ alertMsg' = NoAlert
  /\ UNCHANGED <<task, userInput, status, logs, screenshotUrl, loading, logsOpen, fresh,
                 planningStuck, killing, quotaError, pendingQuestion, pendingAnswer,
                 hookVars, ops, qpolls, histVars>>

Blur ==
  /\ editingUserInput
  /\ editingUserInput' = FALSE
  /\ alertMsg' = NoAlert
  /\ UNCHANGED <<task, userInput, status, logs, screenshotUrl, loading, logsOpen, fresh,
                 planningStuck, killing, quotaError, pendingQuestion, pendingAnswer,
                 hookVars, ops, qpolls, histVars>>

\* the operator types into the focused directive field
TypeDirective ==
  /\ ~UserInputLoading
  /\ editingUserInput
  /\ userInput # Typed
  /\ userInput' = Typed
  /\ alertMsg' = NoAlert
  /\ UNCHANGED <<task, status, logs, screenshotUrl, loading, logsOpen, fresh,
                 planningStuck, editingUserInput, killing, quotaError, pendingQuestion,
                 pendingAnswer, hookVars, ops, qpolls, histVars>>

\* submitUserInput up to its await
ClickSendDirective ==
  /\ ~UserInputLoading
  /\ TotalOps < MaxOps
  /\ loading' = TRUE
  /\ Send("directive")
  /\ alertMsg' = NoAlert
  /\ UNCHANGED <<task, userInput, status, logs, screenshotUrl, logsOpen, fresh,
                 planningStuck, editingUserInput, killing, quotaError, pendingQuestion,
                 pendingAnswer, hookVars, qpolls, histVars>>

SendDirectiveOk ==
  /\ ops["directive"] > 0
  /\ Settle("directive")
  /\ editingUserInput' = FALSE
  /\ loading' = FALSE
  /\ alertMsg' = NoAlert
  /\ UNCHANGED <<task, userInput, status, logs, screenshotUrl, logsOpen, fresh,
                 planningStuck, killing, quotaError, pendingQuestion, pendingAnswer,
                 hookVars, qpolls, histVars>>

SendDirectiveFail ==
  /\ ops["directive"] > 0
  /\ Settle("directive")
  /\ alertMsg' = "Failed to send direction/feedback"
  /\ loading' = FALSE
  /\ UNCHANGED <<task, userInput, status, logs, screenshotUrl, logsOpen, fresh,
                 planningStuck, editingUserInput, killing, quotaError, pendingQuestion,
                 pendingAnswer, hookVars, qpolls, histVars>>

\* resetAgent up to its await
ClickReset ==
  /\ ResetAvailable
  /\ TotalOps < MaxOps
  /\ loading' = TRUE
  /\ Send("reset")
  /\ alertMsg' = NoAlert
  /\ UNCHANGED <<task, userInput, status, logs, screenshotUrl, logsOpen, fresh,
                 planningStuck, editingUserInput, killing, quotaError, pendingQuestion,
                 pendingAnswer, hookVars, qpolls, histVars>>

\* a reset that reports a failure when there is nothing to reset
ResetOk_RejectsWhenFresh ==
  /\ ops["reset"] > 0
  /\ Settle("reset")
  /\ loading' = FALSE
  /\ IF fresh
     THEN /\ alertMsg' = "Failed to reset agent"
          /\ UNCHANGED <<task, userInput, status, logs, screenshotUrl, logsOpen, fresh,
                         quotaError, hookVars>>
     ELSE /\ task' = "" /\ userInput' = "" /\ status' = NoStatus /\ logs' = <<>>
          /\ screenshotUrl' = "" /\ logsOpen' = FALSE /\ fresh' = TRUE
          /\ quotaError' = FALSE
          /\ HookEffect(TRUE, FALSE, editingUserInput)
          /\ alertMsg' = NoAlert
  /\ UNCHANGED <<planningStuck, editingUserInput, killing, pendingQuestion,
                 pendingAnswer, qpolls, histVars>>

\* a reset after which the hook's effect is not run again
ResetOk_KeepsPolling ==
  /\ ops["reset"] > 0
  /\ Settle("reset")
  /\ task' = "" /\ userInput' = "" /\ status' = NoStatus /\ logs' = <<>>
  /\ screenshotUrl' = "" /\ logsOpen' = FALSE /\ fresh' = TRUE /\ quotaError' = FALSE
  /\ loading' = FALSE
  /\ alertMsg' = NoAlert
  /\ UNCHANGED <<planningStuck, editingUserInput, killing, pendingQuestion,
                 pendingAnswer, hookVars, qpolls, histVars>>

\* a reset that leaves the log panel as it is
ResetOk_KeepsLogsOpen ==
  /\ ops["reset"] > 0
  /\ Settle("reset")
  /\ task' = "" /\ userInput' = "" /\ status' = NoStatus /\ logs' = <<>>
  /\ screenshotUrl' = "" /\ fresh' = TRUE /\ quotaError' = FALSE
  /\ loading' = FALSE
  /\ HookEffect(TRUE, FALSE, editingUserInput)
  /\ alertMsg' = NoAlert
  /\ UNCHANGED <<logsOpen, planningStuck, editingUserInput, killing, pendingQuestion,
                 pendingAnswer, qpolls, histVars>>

ResetOk ==
  /\ ops["reset"] > 0
  /\ Settle("reset")
  /\ task' = "" /\ userInput' = "" /\ status' = NoStatus /\ logs' = <<>>
  /\ screenshotUrl' = "" /\ logsOpen' = FALSE /\ fresh' = TRUE /\ quotaError' = FALSE
  /\ loading' = FALSE
  /\ HookEffect(TRUE, FALSE, editingUserInput)
  /\ alertMsg' = NoAlert
  /\ UNCHANGED <<planningStuck, editingUserInput, killing, pendingQuestion,
                 pendingAnswer, qpolls, histVars>>

\* a reset that clears the local state although the call failed
ResetFail_ClearsAnyway ==
  /\ ops["reset"] > 0
  /\ Settle("reset")
  /\ alertMsg' = "Failed to reset agent"
  /\ task' = "" /\ userInput' = "" /\ status' = NoStatus /\ logs' = <<>>
  /\ screenshotUrl' = "" /\ logsOpen' = FALSE
  /\ loading' = FALSE
  /\ UNCHANGED <<fresh, planningStuck, editingUserInput, killing, quotaError,
                 pendingQuestion, pendingAnswer, hookVars, qpolls, histVars>>

ResetFail ==
  /\ ops["reset"] > 0
  /\ Settle("reset")
  /\ alertMsg' = "Failed to reset agent"
  /\ loading' = FALSE
  /\ UNCHANGED <<task, userInput, status, logs, screenshotUrl, logsOpen, fresh,
                 planningStuck, editingUserInput, killing, quotaError, pendingQuestion,
                 pendingAnswer, hookVars, qpolls, histVars>>

\* killSwitch up to its await
ClickKill ==
  /\ KillAvailable
  /\ TotalOps < MaxOps
  /\ killing' = TRUE
  /\ loading' = TRUE
  /\ Send("kill")
  /\ alertMsg' = NoAlert
  /\ UNCHANGED <<task, userInput, status, logs, screenshotUrl, logsOpen, fresh,
                 planningStuck, editingUserInput, quotaError, pendingQuestion,
                 pendingAnswer, hookVars, qpolls, histVars>>

\* window.location.reload(): the page, its closures, timers and requests are gone
\* and App mounts again
Reload ==
  /\ task' = "" /\ userInput' = "" /\ status' = NoStatus /\ logs' = <<>>
  /\ screenshotUrl' = "" /\ loading' = FALSE /\ logsOpen' = FALSE /\ fresh' = TRUE
  /\ planningStuck' = FALSE /\ editingUserInput' = FALSE /\ killing' = FALSE
  /\ quotaError' = FALSE /\ pendingQuestion' = "null" /\ pendingAnswer' = ""
  /\ nsess' = 0
  /\ captured' = [s \in Sessions |-> FALSE]
  /\ planningTimer' = [s \in Sessions |-> FALSE]
  /\ timer' = [s \in Sessions |-> -1]
  /\ interval' = -1
  /\ polls' = [s \in Sessions |-> [g \in Stages |-> 0]]
  /\ ops' = [k \in OpKinds |-> 0]
  /\ qpolls' = 1
  /\ lastSeen' = NoStatus /\ dwell' = -1 /\ episodes' = 0 /\ qstale' = 0

\* killSwitch's own writes without the page reload
KillOk_NoReload ==
  /\ ops["kill"] > 0
  /\ Settle("kill")
  /\ task' = "" /\ userInput' = "" /\ status' = NoStatus /\ logs' = <<>>
  /\ screenshotUrl' = "" /\ logsOpen' = FALSE /\ fresh' = TRUE
  /\ killing' = FALSE /\ loading' = FALSE
  /\ HookEffect(TRUE, quotaError, editingUserInput)
  /\ alertMsg' = NoAlert
  /\ UNCHANGED <<planningStuck, editingUserInput, quotaError, pendingQuestion,
                 pendingAnswer, qpolls, histVars>>

KillOk ==
  /\ ops["kill"] > 0
  /\ Reload
  /\ alertMsg' = NoAlert

\* a catch block that alerts and leaves killing set
KillFail_LeavesKilling ==
  /\ ops["kill"] > 0
  /\ Settle("kill")
  /\ alertMsg' = "Failed to kill/reset agent"
  /\ loading' = FALSE
  /\ UNCHANGED <<task, userInput, status, logs, screenshotUrl, logsOpen, fresh,
                 planningStuck, editingUserInput, killing, quotaError, pendingQuestion,
                 pendingAnswer, hookVars, qpolls, histVars>>

KillFail ==
  /\ ops["kill"] > 0
  /\ Settle("kill")
  /\ alertMsg' = "Failed to kill/reset agent"
  /\ killing' = FALSE
  /\ loading' = FALSE
  /\ UNCHANGED <<task, userInput, status, logs, screenshotUrl, logsOpen, fresh,
                 planningStuck, editingUserInput, quotaError, pendingQuestion,
                 pendingAnswer, hookVars, qpolls, histVars>>

\* LogsPanel: the expand/collapse button
ToggleLogs ==
  /\ logsOpen' = ~logsOpen
  /\ alertMsg' = NoAlert
  /\ UNCHANGED <<task, userInput, status, logs, screenshotUrl, loading, fresh,
                 planningStuck, editingUserInput, killing, quotaError, pendingQuestion,
                 pendingAnswer, hookVars, ops, qpolls, histVars>>

\* clearLogs up to its await
ClickClearLogs ==
  /\ ClearLogsShown
  /\ TotalOps < MaxOps
  /\ loading' = TRUE
  /\ Send("clear")
  /\ alertMsg' = NoAlert
  /\ UNCHANGED <<task, userInput, status, logs, screenshotUrl, logsOpen, fresh,
                 planningStuck, editingUserInput, killing, quotaError, pendingQuestion,
                 pendingAnswer, hookVars, qpolls, histVars>>

ClearLogsOk ==
  /\ ops["clear"] > 0
  /\ Settle("clear")
  /\ logs' = <<>>
  /\ loading' = FALSE
  /\ alertMsg' = NoAlert
  /\ UNCHANGED <<task, userInput, status, screenshotUrl, logsOpen, fresh,
                 planningStuck, editingUserInput, killing, quotaError, pendingQuestion,
                 pendingAnswer, hookVars, qpolls, histVars>>

ClearLogsFail ==
  /\ ops["clear"] > 0
  /\ Settle("clear")
  /\ alertMsg' = "Failed to clear logs"
  /\ loading' = FALSE
  /\ UNCHANGED <<task, userInput, status, logs, screenshotUrl, logsOpen, fresh,
                 planningStuck, editingUserInput, killing, quotaError, pendingQuestion,
                 pendingAnswer, hookVars, qpolls, histVars>>

\* ---------------------------------------------------- interjection channel
\* the pending_question interval fires: poll() up to its await
QuestionTick ==
  /\ qpolls < MaxQPolls
  /\ qpolls' = qpolls + 1
  /\ alertMsg' = NoAlert
  /\ UNCHANGED <<uiVars, hookVars, ops, histVars>>

\* the poll that settles was requested before the last accepted answer, or after it
SettleQuestionPoll ==
  /\ qpolls > 0
  /\ qpolls' = qpolls - 1
  /\ \/ qstale > 0 /\ qstale' = qstale - 1
     \/ qpolls > qstale /\ qstale' = qstale

QuestionOk(q) ==
  /\ SettleQuestionPoll
  /\ pendingQuestion' = q
  /\ alertMsg' = NoAlert
  /\ UNCHANGED <<task, userInput, status, logs, screenshotUrl, loading, logsOpen, fresh,
                 planningStuck, editingUserInput, killing, quotaError, pendingAnswer,
                 hookVars, ops, statusHist>>

\* the get rejects; the catch block is empty
QuestionFail ==
  /\ SettleQuestionPoll
  /\ alertMsg' = NoAlert
  /\ UNCHANGED <<uiVars, hookVars, ops, statusHist>>

\* the operator edits the answer draft in the modal
TypeAnswer ==
  /\ ModalOpen
  /\ pendingAnswer' = IF pendingAnswer = "" THEN AnswerText ELSE ""
  /\ alertMsg' = NoAlert
  /\ UNCHANGED <<task, userInput, status, logs, screenshotUrl, loading, logsOpen, fresh,
                 planningStuck, editingUserInput, killing, quotaError, pendingQuestion,
                 hookVars, ops, qpolls, histVars>>

\* submitPendingAnswer up to its await
ClickSubmitAnswer ==
  /\ AnswerSubmitEnabled
  /\ TotalOps < MaxOps
  /\ Send("answer")
  /\ alertMsg' = NoAlert
  /\ UNCHANGED <<uiVars, hookVars, qpolls, histVars>>

\* an answer whose acceptance also empties the directive field
SubmitAnswerOk_ClearsDirective ==
  /\ ops["answer"] > 0
  /\ Settle("answer")
  /\ pendingQuestion' = "null"
  /\ pendingAnswer' = ""
  /\ userInput' = ""
  /\ qstale' = qpolls
  /\ alertMsg' = NoAlert
  /\ UNCHANGED <<task, status, logs, screenshotUrl, loading, logsOpen, fresh,
                 planningStuck, editingUserInput, killing, quotaError, hookVars, qpolls,
                 statusHist>>

SubmitAnswerOk ==
  /\ ops["answer"] > 0
  /\ Settle("answer")
  /\ pendingQuestion' = "null"
  /\ pendingAnswer' = ""
  /\ qstale' = qpolls
  /\ alertMsg' = NoAlert
  /\ UNCHANGED <<task, userInput, status, logs, screenshotUrl, loading, logsOpen, fresh,
                 planningStuck, editingUserInput, killing, quotaError, hookVars, qpolls,
                 statusHist>>

\* a submission that empties the draft before it knows the outcome
SubmitAnswerFail_ClearsDraft ==
  /\ ops["answer"] > 0
  /\ Settle("answer")
  /\ pendingAnswer' = ""
  /\ alertMsg' = NoAlert
  /\ UNCHANGED <<task, userInput, status, logs, screenshotUrl, loading, logsOpen, fresh,
                 planningStuck, editingUserInput, killing, quotaError, pendingQuestion,
                 hookVars, qpolls, histVars>>

\* the post rejects: submitPendingAnswer's promise rejects, nothing is written
SubmitAnswerFail ==
  /\ ops["answer"] > 0
  /\ Settle("answer")
  /\ alertMsg' = NoAlert
  /\ UNCHANGED <<uiVars, hookVars, qpolls, histVars>>

\* ------------------------------------------------------------ specification
\* The driver: poll cycles, the poll interval, the stall timer and time.
Polling ==
  \/ \E s \in Sessions, st \in RemoteStatuses : PollStatus(s, st)
  \/ \E s \in Sessions, lg \in RemoteLogs : PollLogs(s, lg)
  \/ \E s \in Sessions, ui \in RemoteInputs : PollInput(s, ui)
  \/ \E s \in Sessions, g \in Stages : PollFail(s, g)
  \/ IntervalFire
  \/ \E s \in Sessions : StallFire(s)
  \/ Tick

TaskChannel ==
  \/ TypeTask
  \/ ClickSubmitTask
  \/ SubmitTaskOk
  \/ \E hasError \in BOOLEAN : SubmitTaskFail(hasError)

Lifecycle ==
  \/ ClickReset
  \/ ResetOk
  \/ ResetFail
  \/ ClickKill
  \/ KillOk
  \/ KillFail

DirectiveChannel ==
  \/ Focus
  \/ Blur
  \/ TypeDirective
  \/ ClickSendDirective
  \/ SendDirectiveOk
  \/ SendDirectiveFail

LogsPanel ==
  \/ ToggleLogs
  \/ ClickClearLogs
  \/ ClearLogsOk
  \/ ClearLogsFail

InterjectionChannel ==
  \/ QuestionTick
  \/ \E q \in RemoteQuestions : QuestionOk(q)
  \/ QuestionFail
  \/ TypeAnswer
  \/ ClickSubmitAnswer
  \/ SubmitAnswerOk
  \/ SubmitAnswerFail

\* every step of the dashboard
Next ==
  \/ Polling
  \/ TaskChannel
  \/ Lifecycle
  \/ DirectiveChannel
  \/ LogsPanel
  \/ InterjectionChannel

\* The product of all channels with time is beyond exhaustive search, so each
\* claim is checked under the composition of the channels it depends on; the
\* variables of the other channels keep their initial values.

\* the driver with the task channel and Reset/Kill
NextCore == Polling \/ TaskChannel \/ Lifecycle
Spec == Init /\ [][NextCore]_vars

\* the driver with the task channel and the directive channel with its edit guard
NextDirective == Polling \/ TaskChannel \/ DirectiveChannel
SpecDirective == Init /\ [][NextDirective]_vars

\* The awaits of the poll cycles alone: each effect run's immediate cycle,
\* without the interval, the stall timer and time.
PollCycle ==
  \/ \E s \in Sessions, st \in RemoteStatuses : PollStatus(s, st)
  \/ \E s \in Sessions, lg \in RemoteLogs : PollLogs(s, lg)
  \/ \E s \in Sessions, ui \in RemoteInputs : PollInput(s, ui)
  \/ \E s \in Sessions, g \in Stages : PollFail(s, g)

\* Reset/Kill with every request that shares the loading flag with them, the
\* log panel and the interjection channel
NextLifecycle ==
  PollCycle \/ TaskChannel \/ Lifecycle \/ LogsPanel \/ InterjectionChannel
SpecLifecycle == Init /\ [][NextLifecycle]_vars

\* the interjection channel next to the directive channel
NextInterjection ==
  PollCycle \/ TaskChannel \/ DirectiveChannel \/ InterjectionChannel
SpecInterjection == Init /\ [][NextInterjection]_vars

\* the directive channel next to Reset/Kill and the task channel
NextControls ==
  PollCycle \/ TaskChannel \/ Lifecycle \/ DirectiveChannel
SpecControls == Init /\ [][NextControls]_vars

\* ------------------------------------------------------------------ claims
\* loop s has been torn down: it was started and is not the live loop
TornDown(s) == s <= nsess /\ ~(Live /\ s = nsess)

\* a poll cycle of loop s ends its await of stage g in this step
Resumes(s, g) == polls'[s][g] < polls[s][g]

\* C1: while editing=true holds throughout, no main poll cycle changes the
\* DirectiveBuffer (userInput), whenever editing became true relative to the
\* start of the polling loop.
C1_NoRemoteWriteWhileEditing ==
  [][(editingUserInput /\ editingUserInput' /\ \E s \in Sessions : Resumes(s, "input"))
       => userInput' = userInput]_vars

\* C2: a poll that observes a status other than "planning" cancels the stall
\* timer and clears planningStuck, hence planningStuck=true implies that the
\* most recently observed status is "planning".
C2_LeavingPlanningCancelsStall ==
  /\ [][\A s \in Sessions :
          (\E st \in RemoteStatuses \ {"planning"} : PollStatus(s, st))
            => (timer'[s] = -1 /\ ~planningStuck')]_vars
  /\ []((planningStuck /\ nsess = 1 /\ Live) => lastSeen = "planning")

\* C3: planning -> non-planning -> planning within one polling loop, then
\* planning for 30 s of the second episode: a new dwell started at re-entry
\* and planningStuck is true once more than 30 s of it have passed.
C3_ReentryRestartsDwell ==
  (nsess = 1 /\ Live /\ episodes = 2 /\ dwell = StallTicks + 1) => planningStuck

\* the observations so far are (non-planning)* planning+: the first planning
\* dwell since the page was loaded is going on
InFirstDwell == episodes = 1 /\ dwell >= 0

\* C4: if every poll from the first "planning" observation onward reports
\* "planning", planningStuck is raised not before 30 s have passed since that
\* observation, is not lowered and raised again while the dwell lasts, is
\* lowered by the first poll that observes another status, and (in the loop
\* that made the observation) is up once more than 30 s have passed.
C4_StallRaisedOnceAfterDwell ==
  [][/\ (InFirstDwell /\ ~planningStuck /\ planningStuck') => dwell >= StallTicks
     /\ (InFirstDwell /\ InFirstDwell' /\ planningStuck) => planningStuck'
     /\ (InFirstDwell /\ ~InFirstDwell') => ~planningStuck'
     /\ (nsess' = 1 /\ Live' /\ InFirstDwell' /\ dwell' = StallTicks + 1)
          => planningStuck']_vars

C4_Witness ==
  nsess = 1 /\ Live /\ InFirstDwell /\ dwell = StallTicks /\ planningStuck

\* C5: once a main poll has observed "quota_exceeded", the quotaExceeded flag
\* is true and the main loop is halted (no interval is left to start a cycle).
C5_QuotaHaltsMainLoop ==
  status = "quota_exceeded" => (quotaError /\ interval = -1)

\* C6: right after a poll of the running loop returned "quota_exceeded", with
\* no operator request in flight: planningStuck is false, task submission is
\* disabled, and Reset and Kill are both available.
C6_QuotaScenario ==
  [][((Live /\ PollStatus(nsess, "quota_exceeded")) /\ TotalOps = 0)
       => (~planningStuck /\ ~TaskSubmitEnabled /\ ResetAvailable /\ KillAvailable)']_vars

\* C7: after teardown no callback of the torn-down loop writes status, logs,
\* DirectiveBuffer, screenshot reference or planningStuck, no stall timer of
\* it is armed and no interval is left.
C7_NoOrphanedCallbacks ==
  [][nsess' = nsess =>
       /\ \A s \in Sessions :
            TornDown(s) =>
              /\ (\E g \in Stages : Resumes(s, g))
                   => UNCHANGED <<status, logs, userInput, screenshotUrl, planningStuck>>
              /\ timer'[s] = -1
       /\ ~Live' => interval' = -1]_vars

\* C8: task submission is disabled whenever fresh=false and the status is not
\* one of idle, completed, aborted, and whenever quotaExceeded=true; it is
\* enabled only if fresh=true or the status is in that set, and quotaExceeded,
\* loading and killing are all false.
C8_TaskSubmissionGate ==
  /\ ((~fresh /\ status \notin {"idle", "completed", "aborted"}) \/ quotaError)
       => ~TaskSubmitEnabled
  /\ TaskSubmitEnabled
       => /\ fresh \/ status \in {"idle", "completed", "aborted"}
          /\ ~quotaError /\ ~loading /\ ~killing

C8_Witness ==
  /\ ~fresh /\ status = "planning" /\ task # "" /\ ~loading /\ ~killing
  /\ ~TaskSubmitEnabled

\* C9: a successful submitTask empties the task field and sets fresh=false
\* without reading or changing the status, and the next poll cycle begins
\* within one poll interval (3 s): the loop runs and its interval is due in
\* at most 3000 ms.
C9_SubmitStartsPolling ==
  [][SubmitTaskOk =>
       /\ task' = "" /\ ~fresh'
       /\ status' = status /\ lastSeen' = lastSeen
       /\ Live' /\ interval' >= 0 /\ interval' * TickMs <= PollIntervalMs
       /\ fresh => polls'[nsess'] = [status |-> 1, logs |-> 0, input |-> 0]]_vars

C9_Witness ==
  /\ ~fresh /\ task = "" /\ status = NoStatus /\ ~loading
  /\ nsess = 1 /\ polls[1]["status"] = 1 /\ interval = PollTicks

\* C10: a failed submitTask alerts the server's error message if there is one
\* and the generic message otherwise, leaves the task text, fresh and the
\* reconciled snapshot unchanged and returns loading to false.
C10_SubmitFailureKeepsDraft ==
  [][\A hasError \in BOOLEAN :
       SubmitTaskFail(hasError) =>
         /\ alertMsg' = (IF hasError THEN ServerError ELSE "Failed to submit task")
         /\ UNCHANGED <<task, fresh, status, logs, userInput, screenshotUrl>>
         /\ ~loading']_vars

C10_Witness ==
  /\ alertMsg \in {ServerError, "Failed to submit task"}
  /\ task = TaskText /\ ~loading /\ TaskSubmitEnabled


\* C11: a successful Kill, from any state, leaves the status, the logs, the
\* directive buffer, the pending question and the answer draft cleared and
\* fresh = TRUE.
C11_KillClearsEverything ==
  [][KillOk => (/\ status = NoStatus /\ logs = <<>> /\ userInput = ""
                /\ pendingQuestion = "null" /\ pendingAnswer = ""
                /\ fresh)']_vars

\* a kill request is about to succeed with every one of those fields set
C11_Witness ==
  /\ ops["kill"] > 0
  /\ status # NoStatus /\ logs # <<>> /\ userInput # ""
  /\ pendingQuestion # "null" /\ pendingAnswer # ""
  /\ ~fresh


\* a request that sets loading (or killing) at its start is outstanding
HoldsControls ==
  ops["task"] + ops["directive"] + ops["reset"] + ops["kill"] + ops["clear"] > 0

\* C12: a failed kill call surfaces an alert and returns with killing = FALSE
\* and loading = FALSE, so the Kill control is enabled again; and whatever
\* Kill or Reset attempts failed, the Kill control is disabled only while a
\* request is still outstanding, never for good.
C12_KillFailureAllowsRetry ==
  /\ [][KillFail => /\ alertMsg' = "Failed to kill/reset agent"
                    /\ ~killing' /\ ~loading'
                    /\ KillAvailable']_vars
  /\ [](~KillAvailable => HoldsControls)
  /\ [](killing => ops["kill"] > 0)

\* the kill call has failed after a task was started and Kill can be pressed again
C12_Witness ==
  /\ alertMsg = "Failed to kill/reset agent"
  /\ ~fresh
  /\ ops["kill"] = 0
  /\ KillAvailable


\* C13: in every reachable state in which no kill is in flight (killing =
\* FALSE) the Kill control is available, whatever status, fresh, quotaError
\* and planningStuck are and whatever other request is outstanding.
C13_KillAlwaysAvailable == ~killing => KillAvailable


\* C14: the Reset control is available only where fresh = FALSE, the locally
\* known status is one of completed, idle, aborted, and quotaError = FALSE;
\* in every other reachable state it is not offered.
C14_ResetOnlyAfterNaturalEnd ==
  ResetAvailable => (~fresh /\ status \in Terminal /\ ~quotaError)

\* C14 (amended): the Reset control is available only where planningStuck or
\* quotaError is set, or where fresh = FALSE and the locally known status is
\* one of completed, idle, aborted; with planningStuck set and no request
\* holding the controls it is offered, whatever the status.
C14_ResetOnlyAfterEndOrStall ==
  /\ ResetAvailable => (planningStuck \/ quotaError \/ (~fresh /\ status \in Terminal))
  /\ (planningStuck /\ ~ControlDisabled) => ResetAvailable

\* the stall alert is up over status "planning" in the first polling loop, no
\* teardown before it, and Reset can be pressed
C14_Witness ==
  /\ nsess = 1 /\ Live
  /\ planningStuck
  /\ status = "planning"
  /\ ~fresh
  /\ ResetAvailable


\* C15: a successful Reset leaves the status empty, the logs empty, the
\* directive buffer empty, the screenshot reference empty, the log panel
\* closed, fresh = TRUE and loading = FALSE, whatever they were before.
C15_ResetClearsLocalState ==
  [][ResetOk => (/\ status = NoStatus /\ logs = <<>> /\ userInput = ""
                 /\ screenshotUrl = "" /\ ~logsOpen /\ fresh /\ ~loading)']_vars

\* a Reset has succeeded on a loop that had observed a completed run, and
\* nothing has been written since
C15_Witness ==
  /\ nsess = 1 /\ fresh
  /\ lastSeen = "completed"
  /\ TotalOps = 0 /\ TotalPolls = 0
  /\ status = NoStatus /\ logs = <<>> /\ userInput = "" /\ screenshotUrl = ""
  /\ ~logsOpen /\ ~loading


\* C16: when the teardown call of Reset fails an alert is surfaced and task,
\* directive buffer, status, logs, screenshot reference, log-panel
\* visibility, fresh and quotaError keep their values; only loading changes,
\* and it ends FALSE.
C16_ResetFailureKeepsLocalState ==
  [][ResetFail => /\ alertMsg' = "Failed to reset agent"
                  /\ UNCHANGED <<task, userInput, status, logs, screenshotUrl,
                                 logsOpen, fresh, quotaError>>
                  /\ UNCHANGED <<planningStuck, editingUserInput, killing,
                                 pendingQuestion, pendingAnswer, hookVars>>
                  /\ ~loading']_vars

\* the Reset of a completed run has failed: the alert is up and the run's
\* status, logs, mirrored directive and the open log panel are still there
C16_Witness ==
  /\ alertMsg = "Failed to reset agent"
  /\ ~fresh /\ status = "completed" /\ logs # <<>> /\ userInput # ""
  /\ screenshotUrl # "" /\ task # "" /\ logsOpen
  /\ ~loading


\* a main poll cycle is started in this step: the immediate one of an effect
\* run or an interval tick
PollStarts == \E s \in Sessions : polls'[s]["status"] > polls[s]["status"]

\* C17: fresh is TRUE initially, turns FALSE only through a successful
\* submitTask, turns TRUE again only through a successful Reset or Kill, and
\* no main poll cycle, immediate or interval tick, is started while fresh is
\* TRUE.
C17_FreshGatesPolling ==
  /\ fresh = TRUE
  /\ [][(fresh /\ ~fresh') => SubmitTaskOk]_vars
  /\ [][(~fresh /\ fresh') => (ResetOk \/ KillOk)]_vars
  /\ [][PollStarts => ~fresh']_vars
  /\ [](fresh => interval = -1)

\* fresh again after a Reset of a loop that had polled: no interval is armed
\* and no cycle is awaiting
C17_Witness ==
  /\ fresh /\ nsess = 1
  /\ lastSeen # NoStatus
  /\ interval = -1
  /\ TotalPolls = 0


\* C18: a successful submitAnswer sets the pending question to null and the
\* answer draft to empty and changes nothing else: directive buffer, editing
\* flag, task, status, logs, fresh and loading keep their values.
C18_AnswerAcceptedClearsInterjection ==
  [][SubmitAnswerOk => /\ pendingQuestion' = "null"
                       /\ pendingAnswer' = ""
                       /\ UNCHANGED <<userInput, editingUserInput, task, status,
                                      logs, fresh, loading>>
                       /\ UNCHANGED <<screenshotUrl, logsOpen, planningStuck,
                                      killing, quotaError, hookVars>>]_vars

\* an answer is about to be accepted while the operator is editing a typed
\* directive, a run is being shown and another request holds loading
C18_Witness ==
  /\ ops["answer"] > 0
  /\ ModalOpen /\ pendingAnswer # ""
  /\ userInput = Typed /\ editingUserInput
  /\ ~fresh /\ status # NoStatus /\ logs # <<>>
  /\ loading

\* C19: when the answer submission fails the pending question and the answer
\* draft are left as they were, so a question that was visible stays visible
\* and the same answer can be submitted again.
C19_AnswerFailureKeepsInterjection ==
  [][SubmitAnswerFail => /\ UNCHANGED <<pendingQuestion, pendingAnswer>>
                         /\ (AnswerSubmitEnabled => AnswerSubmitEnabled')]_vars

\* the only submission of a drafted answer is about to fail with the question
\* on screen
C19_Witness ==
  /\ ops["answer"] = 1
  /\ pendingQuestion = "Which file?"
  /\ pendingAnswer = AnswerText

\* C20: when an interjection poll observes a non-null question, that question
\* becomes the rendered pending question and nothing but pendingQuestion
\* changes: the uncommitted directive text stays, and the directive input is
\* not disabled by the presence of the question.
C20_QuestionLeavesDirectiveAlone ==
  /\ [][\A q \in RemoteQuestions \ {"null"} :
          QuestionOk(q) => /\ pendingQuestion' = q
                           /\ ModalOpen'
                           /\ UNCHANGED <<task, userInput, status, logs, screenshotUrl,
                                          loading, logsOpen, fresh, planningStuck,
                                          editingUserInput, killing, quotaError,
                                          pendingAnswer, hookVars>>
                           /\ UserInputLoading' = UserInputLoading]_vars
  /\ []((ModalOpen /\ ~loading /\ ~killing /\ ~quotaError) => ~UserInputLoading)

\* a question has arrived while the operator is editing a typed directive; the
\* text is still there and the field is enabled
C20_Witness ==
  /\ pendingQuestion = "Which file?"
  /\ qpolls = 0
  /\ userInput = Typed /\ editingUserInput
  /\ ~UserInputLoading


\* C21: a main poll cycle whose status, logs or user_input fetch fails does
\* not stop the loop: the failing step writes no field and leaves the
\* interval and the stall timer as they are, the interval stays armed as long
\* as fresh = FALSE and quotaError = FALSE, and when it fires a new cycle
\* starts.
C21_FailedCycleKeepsLoop ==
  /\ [][\A s \in Sessions, g \in Stages :
          PollFail(s, g) => UNCHANGED <<status, logs, userInput, screenshotUrl,
                                        planningStuck, task, fresh, quotaError,
                                        interval, timer, planningTimer, nsess>>]_vars
  /\ [](Live => interval >= 0)
  /\ [][(interval = 0 /\ interval' = PollTicks) => PollStarts]_vars

\* the first loop has read a status, its cycle failed before the screenshot
\* reference was set, and the next interval tick has started a new cycle
C21_Witness ==
  /\ nsess = 1 /\ Live
  /\ lastSeen # NoStatus
  /\ screenshotUrl = ""
  /\ polls[1]["status"] = 1
  /\ interval = PollTicks


Cleared == fresh /\ status = NoStatus /\ logs = <<>> /\ userInput = ""

\* C23: Kill and Reset are idempotent for the operator: when either succeeds
\* in a state where the agent is already idle or fresh it surfaces no error
\* and leaves the cleared local state (fresh = TRUE, status, logs and
\* directive buffer empty), the same as a single invocation.
C23_TeardownIdempotent ==
  [][((fresh \/ status = "idle") /\ (ResetOk \/ KillOk))
       => (alertMsg' = NoAlert /\ Cleared')]_vars

\* the first of two Resets has succeeded and the second is about to succeed on
\* the dashboard that is already fresh and cleared
C23_Witness ==
  /\ nsess = 1
  /\ Cleared
  /\ ops["reset"] = 1


\* requests of submitTask, submitDirective, Reset, Kill and clearLogs outstanding
GuardedOps ==
  ops["task"] + ops["directive"] + ops["reset"] + ops["kill"] + ops["clear"]

\* C24: loading is a sound in-flight guard: in every reachable state in which
\* a request of submitTask, submitDirective, Reset, Kill or clearLogs is
\* outstanding loading = TRUE, so at most one of them is in flight at a time.
C24_LoadingGuardsRequests ==
  /\ GuardedOps > 0 => loading
  /\ GuardedOps <= 1


\* C25: once a successful submitAnswer has cleared the pending question, a
\* pending_question poll that was requested before the answer was accepted
\* and resolves afterwards does not bring the question back.
C25_AnsweredQuestionStaysCleared ==
  [][(qstale' < qstale /\ pendingQuestion = "null") => pendingQuestion' = "null"]_vars


\* C26: in every reachable state with fresh = TRUE planningStuck is FALSE: a
\* successful Reset taken while the stall advisory is shown (here in the first
\* polling loop of the page) clears the advisory together with the rest of
\* the local state.
C26_ResetClearsStallAdvisory ==
  [][(nsess = 1 /\ Live /\ planningStuck /\ ResetOk) => (fresh => ~planningStuck)']_vars

====
